---- MODULE Spec2Model ----
(***************************************************************************)
(* Espresso globals (globals.c) and the thread-local accessor layer        *)
(* (thread_local_accessors.c/.h).                                          *)
(*                                                                         *)
(* Every _Thread_local object of globals.c exists once per live thread, in *)
(* that thread's TLS block.  An address is a pair (block, variable); the   *)
(* accessors compute addresses and store through them.  The two file-scope *)
(* tables, pla_types and bit_count, are ordinary (non-const) statics and   *)
(* are therefore part of the state as well.                                *)
(*                                                                         *)
(* Scalars are held as C holds them: bool as 0/1, a null pointer as 0, and *)
(* unsigned int as a 32-bit pattern, written as two 16-bit halves          *)
(* <<high, low>> (4294967295 is <<65535, 65535>>).  The contents of an     *)
(* aggregate (a struct or an array) are abstracted to a natural number, 0  *)
(* being the all-zero pattern that static initialisation produces.         *)
(***************************************************************************)
EXTENDS Naturals, Sequences, FiniteSets

VARIABLES
    alive,      \* the set of threads that have started and not yet exited
    tp,         \* tp[t]: the TLS block of thread t (NoBlock when t is not alive)
    mem,        \* mem[b][x]: the value of thread-local object x in block b
    held,       \* held[t]: the references the accessors have returned to t
    last,       \* last[t]: the latest accessor call or store of t
    wrote,      \* wrote[t]: t has stored into its context since it started
    ops,        \* number of accessor calls and stores made so far
    pla_types,  \* the static token registry
    bit_count,  \* the static byte population-count table
    typq,       \* the last registry lookup: its word and its outcome
    bitq        \* the last bit_count lookup: its byte and its outcome

vars == <<alive, tp, mem, held, last, wrote, ops, pla_types, bit_count, typq, bitq>>

threadVars == <<alive, tp, mem, held, last, wrote, ops>>
tableVars  == <<pla_types, bit_count>>
queryVars  == <<typq, bitq>>

---------------------------------------------------------------------------
(* Bounds of the model. *)

NumThreads == 2
MaxOps     == 3
MaxAgg     == 1

Threads == 1..NumThreads
Blocks  == 1..NumThreads
NoBlock == 0

---------------------------------------------------------------------------
(* The thread-local objects of globals.c. *)

BoolVars ==
    { "verbose_debug", "echo_comments", "echo_unknown_commands",
      "force_irredundant", "skip_make_sparse", "kiss", "pos",
      "print_solution", "recompute_onset", "remove_essential",
      "single_expand", "summary", "trace", "unwrap_onset",
      "use_random_order", "use_super_gasp" }

UIntVars == { "debug" }

TimingVars == { "total_name", "total_time", "total_calls" }

PtrVars == { "filename" }

CubeVars == { "cube", "temp_cube_save" }

CdataVars == { "cdata", "temp_cdata_save" }

ThreadLocals ==
    BoolVars \cup UIntVars \cup TimingVars \cup PtrVars \cup CubeVars \cup CdataVars

TypeOf(x) ==
    IF x \in BoolVars THEN "bool"
    ELSE IF x \in UIntVars THEN "unsigned int"
    ELSE IF x \in CubeVars THEN "struct cube_struct"
    ELSE IF x \in CdataVars THEN "struct cdata_struct"
    ELSE IF x \in PtrVars THEN "char *"
    ELSE "array"

\* unsigned int: 32 bits, as two halves of HalfWord values each.
HalfWord == 65536

U32(high, low) == <<high, low>>

\* Reduction modulo 2^32 of a value given in halves.
ToUInt(v) == <<(v[1] + (v[2] \div HalfWord)) % HalfWord, v[2] % HalfWord>>

\* Conversion to bool: any non-zero value becomes 1.
ToBool(v) == IF v = 0 THEN 0 ELSE 1

\* The zero of each type.
ZeroOf(x) == IF x \in UIntVars THEN U32(0, 0) ELSE 0

\* Objects of thread storage duration without an initializer start as zero.
ZeroContext == [x \in ThreadLocals |-> ZeroOf(x)]

\* Storage that belongs to no live thread: its contents are indeterminate and
\* nothing reads them.  One canonical non-zero pattern stands for them.
Poison == [x \in ThreadLocals |-> IF x \in UIntVars THEN U32(1, 1) ELSE 1]

\* The values a test harness passes or stores, per C type.
DebugInputs == { U32(0, 0), U32(0, 1), U32(0, 5), U32(65535, 65535) }
BoolInputs  == { 0, 1 }
AggInputs   == 0..MaxAgg

ValuesOf(type) ==
    IF type = "bool" THEN BoolInputs
    ELSE IF type = "unsigned int" THEN DebugInputs
    ELSE AggInputs

---------------------------------------------------------------------------
(* thread_local_accessors.c: which object each accessor names. *)

Getters ==
    { "get_cube", "get_cdata", "get_debug_ptr", "get_verbose_debug_ptr",
      "get_trace_ptr", "get_summary_ptr", "get_remove_essential_ptr",
      "get_force_irredundant_ptr", "get_unwrap_onset_ptr",
      "get_single_expand_ptr", "get_use_super_gasp_ptr",
      "get_use_random_order_ptr", "get_skip_make_sparse_ptr" }

Setters ==
    { "set_debug", "set_verbose_debug", "set_trace", "set_summary",
      "set_remove_essential", "set_force_irredundant", "set_unwrap_onset",
      "set_single_expand", "set_use_super_gasp", "set_use_random_order",
      "set_skip_make_sparse" }

\* ReturnsAddressOf with the body of get_summary_ptr pasted from get_trace_ptr
\* and not edited.
ReturnsAddressOfPasted(g) ==
    CASE g = "get_cube"                  -> "cube"
      [] g = "get_cdata"                 -> "cdata"
      [] g = "get_debug_ptr"             -> "debug"
      [] g = "get_verbose_debug_ptr"     -> "verbose_debug"
      [] g = "get_trace_ptr"             -> "trace"
      [] g = "get_summary_ptr"           -> "trace"
      [] g = "get_remove_essential_ptr"  -> "remove_essential"
      [] g = "get_force_irredundant_ptr" -> "force_irredundant"
      [] g = "get_unwrap_onset_ptr"      -> "unwrap_onset"
      [] g = "get_single_expand_ptr"     -> "single_expand"
      [] g = "get_use_super_gasp_ptr"    -> "use_super_gasp"
      [] g = "get_use_random_order_ptr"  -> "use_random_order"
      [] g = "get_skip_make_sparse_ptr"  -> "skip_make_sparse"

\* The object whose address getter g returns ("return &x;").
ReturnsAddressOf(g) ==
    CASE g = "get_cube"                  -> "cube"
      [] g = "get_cdata"                 -> "cdata"
      [] g = "get_debug_ptr"             -> "debug"
      [] g = "get_verbose_debug_ptr"     -> "verbose_debug"
      [] g = "get_trace_ptr"             -> "trace"
      [] g = "get_summary_ptr"           -> "summary"
      [] g = "get_remove_essential_ptr"  -> "remove_essential"
      [] g = "get_force_irredundant_ptr" -> "force_irredundant"
      [] g = "get_unwrap_onset_ptr"      -> "unwrap_onset"
      [] g = "get_single_expand_ptr"     -> "single_expand"
      [] g = "get_use_super_gasp_ptr"    -> "use_super_gasp"
      [] g = "get_use_random_order_ptr"  -> "use_random_order"
      [] g = "get_skip_make_sparse_ptr"  -> "skip_make_sparse"

\* Assigns with the body of set_use_random_order pasted from set_use_super_gasp
\* and not edited.
AssignsPasted(s) ==
    CASE s = "set_debug"             -> "debug"
      [] s = "set_verbose_debug"     -> "verbose_debug"
      [] s = "set_trace"             -> "trace"
      [] s = "set_summary"           -> "summary"
      [] s = "set_remove_essential"  -> "remove_essential"
      [] s = "set_force_irredundant" -> "force_irredundant"
      [] s = "set_unwrap_onset"      -> "unwrap_onset"
      [] s = "set_single_expand"     -> "single_expand"
      [] s = "set_use_super_gasp"    -> "use_super_gasp"
      [] s = "set_use_random_order"  -> "use_super_gasp"
      [] s = "set_skip_make_sparse"  -> "skip_make_sparse"

\* The object setter s assigns ("x = value;").
Assigns(s) ==
    CASE s = "set_debug"             -> "debug"
      [] s = "set_verbose_debug"     -> "verbose_debug"
      [] s = "set_trace"             -> "trace"
      [] s = "set_summary"           -> "summary"
      [] s = "set_remove_essential"  -> "remove_essential"
      [] s = "set_force_irredundant" -> "force_irredundant"
      [] s = "set_unwrap_onset"      -> "unwrap_onset"
      [] s = "set_single_expand"     -> "single_expand"
      [] s = "set_use_super_gasp"    -> "use_super_gasp"
      [] s = "set_use_random_order"  -> "use_random_order"
      [] s = "set_skip_make_sparse"  -> "skip_make_sparse"

\* The declared pointee type of getter g and parameter type of setter s.
PointeeType(g) ==
    IF g = "get_cube" THEN "struct cube_struct"
    ELSE IF g = "get_cdata" THEN "struct cdata_struct"
    ELSE IF g = "get_debug_ptr" THEN "unsigned int"
    ELSE "bool"

ParamType(s) == IF s = "set_debug" THEN "unsigned int" ELSE "bool"

\* Convert with set_debug's parameter declared unsigned short: the argument is
\* cut to its low 16 bits.
ConvertNarrow(type, v) ==
    IF type = "unsigned int" THEN U32(0, v[2] % HalfWord) ELSE ToBool(v)

Convert(type, v) == IF type = "unsigned int" THEN ToUInt(v) ELSE ToBool(v)

---------------------------------------------------------------------------
(* Addresses and loads. *)

NullPtr == [blk |-> NoBlock, var |-> "null"]

\* AddressOf with the objects declared without _Thread_local: one instance,
\* whichever thread takes the address.
AddressOfStatic(t, x) == [blk |-> 1, var |-> x]

\* &x evaluated on thread t: x's instance in t's own TLS block.
AddressOf(t, x) == [blk |-> tp[t], var |-> x]

Deref(p) == mem[p.blk][p.var]

\* The value thread t reads from its own object x.
Read(t, x) == Deref(AddressOf(t, x))

InUse == { tp[t] : t \in alive }

\* What a thread did last: a call of a getter ("get") or of a setter ("set",
\* with the argument passed), a store through a held reference ("store", with
\* the getter the reference came from and the value stored), the call of
\* get_<flag>_ptr straight after the call of set_<flag> for the same flag
\* ("set;get", which keeps the argument), or the call of a getter straight
\* after a store through a reference the same getter returned earlier
\* ("store;get", which keeps the value stored).
Event(op, name, v, p) == [op |-> op, name |-> name, val |-> v, ptr |-> p]

NoEvent == Event("none", "", 0, NullPtr)

\* The setter declared next to getter g in thread_local_accessors.h.
SetterFor(g) ==
    CASE g = "get_debug_ptr"             -> "set_debug"
      [] g = "get_verbose_debug_ptr"     -> "set_verbose_debug"
      [] g = "get_trace_ptr"             -> "set_trace"
      [] g = "get_summary_ptr"           -> "set_summary"
      [] g = "get_remove_essential_ptr"  -> "set_remove_essential"
      [] g = "get_force_irredundant_ptr" -> "set_force_irredundant"
      [] g = "get_unwrap_onset_ptr"      -> "set_unwrap_onset"
      [] g = "get_single_expand_ptr"     -> "set_single_expand"
      [] g = "get_use_super_gasp_ptr"    -> "set_use_super_gasp"
      [] g = "get_use_random_order_ptr"  -> "set_use_random_order"
      [] g = "get_skip_make_sparse_ptr"  -> "set_skip_make_sparse"
      [] OTHER                           -> "none"

GetEvent(prev, g, p) ==
    IF prev.op = "set" /\ prev.name = SetterFor(g)
    THEN Event("set;get", g, prev.val, p)
    ELSE IF prev.op = "store" /\ prev.name = g
    THEN Event("store;get", g, prev.val, p)
    ELSE Event("get", g, 0, p)

---------------------------------------------------------------------------
(* globals.c: the static tables.  Type masks come from espresso.h. *)

F_type == 1
D_type == 2
R_type == 4
PLEASURE_type == 8
EQNTOTT_type == 16
KISS_type == 128
CONSTRAINTS_type == 256
SYMBOLIC_CONSTRAINTS_type == 512

\* Bitwise OR of two naturals.
RECURSIVE BitOr(_, _)
BitOr(a, b) ==
    IF a = 0 THEN b
    ELSE IF b = 0 THEN a
    ELSE (IF a % 2 = 1 \/ b % 2 = 1 THEN 1 ELSE 0) + 2 * BitOr(a \div 2, b \div 2)

FD_type == BitOr(F_type, D_type)
FR_type == BitOr(F_type, R_type)
DR_type == BitOr(D_type, R_type)
FDR_type == BitOr(BitOr(F_type, D_type), R_type)

\* A key is a char *: either the null pointer or a string.
Key(s) == [null |-> FALSE, str |-> s]
NullKey == [null |-> TRUE, str |-> ""]

Entry(k, m) == [key |-> k, value |-> m]

\* Entries 1..7: one-section and multi-section types.
pla_types_plain ==
    << Entry(Key("-f"), F_type),
       Entry(Key("-r"), R_type),
       Entry(Key("-d"), D_type),
       Entry(Key("-fd"), FD_type),
       Entry(Key("-fr"), FR_type),
       Entry(Key("-dr"), DR_type),
       Entry(Key("-fdr"), FDR_type) >>

\* pla_types_cons with the "-frc" line pasted from "-fdc" and only its key edited.
pla_types_cons_pasted ==
    << Entry(Key("-fc"), BitOr(F_type, CONSTRAINTS_type)),
       Entry(Key("-rc"), BitOr(R_type, CONSTRAINTS_type)),
       Entry(Key("-dc"), BitOr(D_type, CONSTRAINTS_type)),
       Entry(Key("-fdc"), BitOr(FD_type, CONSTRAINTS_type)),
       Entry(Key("-frc"), BitOr(FD_type, CONSTRAINTS_type)),
       Entry(Key("-drc"), BitOr(DR_type, CONSTRAINTS_type)),
       Entry(Key("-fdrc"), BitOr(FDR_type, CONSTRAINTS_type)) >>

\* Entries 8..14: the same types with constraints.
pla_types_cons ==
    << Entry(Key("-fc"), BitOr(F_type, CONSTRAINTS_type)),
       Entry(Key("-rc"), BitOr(R_type, CONSTRAINTS_type)),
       Entry(Key("-dc"), BitOr(D_type, CONSTRAINTS_type)),
       Entry(Key("-fdc"), BitOr(FD_type, CONSTRAINTS_type)),
       Entry(Key("-frc"), BitOr(FR_type, CONSTRAINTS_type)),
       Entry(Key("-drc"), BitOr(DR_type, CONSTRAINTS_type)),
       Entry(Key("-fdrc"), BitOr(FDR_type, CONSTRAINTS_type)) >>

\* pla_types_tail without the terminating {0, 0}.
pla_types_tail_unterminated ==
    << Entry(Key("-pleasure"), PLEASURE_type),
       Entry(Key("-eqn"), EQNTOTT_type),
       Entry(Key("-eqntott"), EQNTOTT_type),
       Entry(Key("-kiss"), KISS_type),
       Entry(Key("-cons"), CONSTRAINTS_type),
       Entry(Key("-scons"), SYMBOLIC_CONSTRAINTS_type) >>

\* Entries 15..21: the format selectors and the terminating {0, 0}.
pla_types_tail ==
    << Entry(Key("-pleasure"), PLEASURE_type),
       Entry(Key("-eqn"), EQNTOTT_type),
       Entry(Key("-eqntott"), EQNTOTT_type),
       Entry(Key("-kiss"), KISS_type),
       Entry(Key("-cons"), CONSTRAINTS_type),
       Entry(Key("-scons"), SYMBOLIC_CONSTRAINTS_type),
       Entry(NullKey, 0) >>

pla_types_initializer == pla_types_plain \o pla_types_cons \o pla_types_tail

bit_count_row0 ==
    << 0,1,1,2,1,2,2,3,1,2,2,3,2,3,3,4,1,2,2,3,2,3,3,4,2,3,3,4,3,4,4,5 >>

bit_count_row1 ==
    << 1,2,2,3,2,3,3,4,2,3,3,4,3,4,4,5,2,3,3,4,3,4,4,5,3,4,4,5,4,5,5,6 >>

bit_count_row2 ==
    << 1,2,2,3,2,3,3,4,2,3,3,4,3,4,4,5,2,3,3,4,3,4,4,5,3,4,4,5,4,5,5,6 >>

bit_count_row3 ==
    << 2,3,3,4,3,4,4,5,3,4,4,5,4,5,5,6,3,4,4,5,4,5,5,6,4,5,5,6,5,6,6,7 >>

bit_count_row4 ==
    << 1,2,2,3,2,3,3,4,2,3,3,4,3,4,4,5,2,3,3,4,3,4,4,5,3,4,4,5,4,5,5,6 >>

\* bit_count_row5 with the entry for byte 170 mistyped.
bit_count_row5_typo ==
    << 2,3,3,4,3,4,4,5,3,4,5,5,4,5,5,6,3,4,4,5,4,5,5,6,4,5,5,6,5,6,6,7 >>

bit_count_row5 ==
    << 2,3,3,4,3,4,4,5,3,4,4,5,4,5,5,6,3,4,4,5,4,5,5,6,4,5,5,6,5,6,6,7 >>

bit_count_row6 ==
    << 2,3,3,4,3,4,4,5,3,4,4,5,4,5,5,6,3,4,4,5,4,5,5,6,4,5,5,6,5,6,6,7 >>

bit_count_row7 ==
    << 3,4,4,5,4,5,5,6,4,5,5,6,5,6,6,7,4,5,5,6,5,6,6,7,5,6,6,7,6,7,7,8 >>

bit_count_rows ==
    bit_count_row0 \o bit_count_row1 \o bit_count_row2 \o bit_count_row3 \o
    bit_count_row4 \o bit_count_row5 \o bit_count_row6 \o bit_count_row7

\* int bit_count[256]: 256 elements indexed from 0; elements the initializer
\* list does not reach are zero.
BIT_COUNT_SIZE == 256

bit_count_initializer ==
    [i \in 0..(BIT_COUNT_SIZE - 1) |->
        IF i + 1 <= Len(bit_count_rows) THEN bit_count_rows[i + 1] ELSE 0]

---------------------------------------------------------------------------
(* Lookups in the static tables. *)

\* The words a caller looks up: every registered token and some that are not.
Words ==
    { pla_types_initializer[i].key.str : i \in 1..Len(pla_types_initializer) }
    \cup { "-zzz", "-F", "-FDRC", "-fdrcx", "fdrc", "-", "-eq", "-con" }

Bytes == 0..255

Found(i, m)  == [status |-> "found", index |-> i, value |-> m]
NotRecognized(i) == [status |-> "not recognized", index |-> i, value |-> 0]
Overrun(i)   == [status |-> "overrun", index |-> i, value |-> 0]

\* The scan of the registry from entry i: stop at the first null key, return the
\* first entry whose key compares equal (strcmp) to the word.  Reading past the
\* last element of the array is reported as an overrun.
RECURSIVE ScanFrom(_, _, _)
ScanFrom(tbl, word, i) ==
    IF i > Len(tbl) THEN Overrun(i)
    ELSE IF tbl[i].key.null THEN NotRecognized(i)
    ELSE IF tbl[i].key.str = word THEN Found(i, tbl[i].value)
    ELSE ScanFrom(tbl, word, i + 1)

\* What a lookup can return.  An overrun reads storage beyond the array, so
\* after it any outcome is possible.
LookupOutcomes(tbl, word) ==
    LET r == ScanFrom(tbl, word, 1)
    IN  IF r.status = "overrun"
        THEN { r, NotRecognized(r.index) } \cup { Found(r.index, m) : m \in 0..1 }
        ELSE { r }

TypeLookup(word) ==
    /\ \E r \in LookupOutcomes(pla_types, word) :
          typq' = [word |-> word, status |-> r.status,
                   index |-> r.index, value |-> r.value]
    /\ UNCHANGED <<threadVars, tableVars, bitq>>

BitCountLookup(byte) ==
    /\ bitq' = [asked |-> TRUE, byte |-> byte, count |-> bit_count[byte]]
    /\ UNCHANGED <<threadVars, tableVars, typq>>

---------------------------------------------------------------------------
(* Thread lifetime: the storage class _Thread_local. *)

\* ThreadStart with the new thread placed in any block, free or not, and an
\* occupied block left as it is: threads can come to share their objects.
ThreadStartShared(t, b) ==
    /\ t \notin alive
    /\ alive' = alive \cup {t}
    /\ tp' = [tp EXCEPT ![t] = b]
    /\ mem' = IF b \in InUse THEN mem ELSE [mem EXCEPT ![b] = ZeroContext]
    /\ held' = [held EXCEPT ![t] = {}]
    /\ last' = [last EXCEPT ![t] = NoEvent]
    /\ wrote' = [wrote EXCEPT ![t] = FALSE]
    /\ UNCHANGED <<ops, tableVars, queryVars>>

\* ThreadStart without the zero-initialisation: the new thread's objects hold
\* whatever the block held.
ThreadStartUninit(t, b) ==
    /\ t \notin alive
    /\ b \notin InUse
    /\ alive' = alive \cup {t}
    /\ tp' = [tp EXCEPT ![t] = b]
    /\ held' = [held EXCEPT ![t] = {}]
    /\ last' = [last EXCEPT ![t] = NoEvent]
    /\ wrote' = [wrote EXCEPT ![t] = FALSE]
    /\ UNCHANGED <<mem, ops, tableVars, queryVars>>

\* Thread t starts.  Its instance of every thread-local object is created in a
\* block no live thread uses, and zero-initialised.
ThreadStart(t, b) ==
    /\ t \notin alive
    /\ b \notin InUse
    /\ alive' = alive \cup {t}
    /\ tp' = [tp EXCEPT ![t] = b]
    /\ mem' = [mem EXCEPT ![b] = ZeroContext]
    /\ held' = [held EXCEPT ![t] = {}]
    /\ last' = [last EXCEPT ![t] = NoEvent]
    /\ wrote' = [wrote EXCEPT ![t] = FALSE]
    /\ UNCHANGED <<ops, tableVars, queryVars>>

\* Thread t exits.  The lifetime of its thread-local objects ends with it, and
\* so do the references it held.
ThreadExit(t) ==
    /\ t \in alive
    /\ alive' = alive \ {t}
    /\ mem' = [mem EXCEPT ![tp[t]] = Poison]
    /\ tp' = [tp EXCEPT ![t] = NoBlock]
    /\ held' = [held EXCEPT ![t] = {}]
    /\ last' = [last EXCEPT ![t] = NoEvent]
    /\ wrote' = [wrote EXCEPT ![t] = FALSE]
    /\ UNCHANGED <<ops, tableVars, queryVars>>

---------------------------------------------------------------------------
(* thread_local_accessors.c: the accessors, called on thread t. *)

\* Getter with get_cube and get_cdata handing out a snapshot: the object is
\* copied into its save slot and the slot's address is returned.
GetterSnapshot(t, g) ==
    /\ t \in alive
    /\ ops < MaxOps
    /\ LET x == ReturnsAddressOf(g)
           slot == IF x = "cube" THEN "temp_cube_save"
                   ELSE IF x = "cdata" THEN "temp_cdata_save" ELSE x
           p == AddressOf(t, slot)
       IN  /\ mem' = [mem EXCEPT ![tp[t]][slot] = mem[tp[t]][x]]
           /\ held' = [held EXCEPT ![t] = @ \cup {[getter |-> g, ptr |-> p]}]
           /\ last' = [last EXCEPT ![t] = GetEvent(@, g, p)]
    /\ ops' = ops + 1
    /\ UNCHANGED <<alive, tp, wrote, tableVars, queryVars>>

\* get_cube, get_cdata, get_<flag>_ptr: return &x.  The caller keeps the
\* reference.
Getter(t, g) ==
    /\ t \in alive
    /\ ops < MaxOps
    /\ LET p == AddressOf(t, ReturnsAddressOf(g))
       IN  /\ held' = [held EXCEPT ![t] = @ \cup {[getter |-> g, ptr |-> p]}]
           /\ last' = [last EXCEPT ![t] = GetEvent(@, g, p)]
    /\ ops' = ops + 1
    /\ UNCHANGED <<alive, tp, mem, wrote, tableVars, queryVars>>

\* set_<flag>(value): x = value.
Setter(t, s, v) ==
    /\ t \in alive
    /\ ops < MaxOps
    /\ LET value == Convert(ParamType(s), v)
           a == AddressOf(t, Assigns(s))
       IN  /\ mem' = [mem EXCEPT ![a.blk][a.var] = value]
           /\ last' = [last EXCEPT ![t] = Event("set", s, v, NullPtr)]
    /\ wrote' = [wrote EXCEPT ![t] = TRUE]
    /\ ops' = ops + 1
    /\ UNCHANGED <<alive, tp, held, tableVars, queryVars>>

\* The caller stores v through a reference r an accessor returned to it.
StoreThrough(t, r, v) ==
    /\ t \in alive
    /\ r \in held[t]
    /\ ops < MaxOps
    /\ mem' = [mem EXCEPT ![r.ptr.blk][r.ptr.var] = v]
    /\ last' = [last EXCEPT ![t] = Event("store", r.getter, v, r.ptr)]
    /\ wrote' = [wrote EXCEPT ![t] = TRUE]
    /\ ops' = ops + 1
    /\ UNCHANGED <<alive, tp, held, tableVars, queryVars>>

---------------------------------------------------------------------------
(* The specifications. *)

Init ==
    /\ alive = {}
    /\ tp = [t \in Threads |-> NoBlock]
    /\ mem = [b \in Blocks |-> Poison]
    /\ held = [t \in Threads |-> {}]
    /\ last = [t \in Threads |-> NoEvent]
    /\ wrote = [t \in Threads |-> FALSE]
    /\ ops = 0
    /\ pla_types = pla_types_initializer
    /\ bit_count = bit_count_initializer
    /\ typq = [word |-> "", status |-> "none", index |-> 0, value |-> 0]
    /\ bitq = [asked |-> FALSE, byte |-> 0, count |-> 0]

\* Threads running the accessors.
Next ==
    \/ \E t \in Threads, b \in Blocks : ThreadStart(t, b)
    \/ \E t \in Threads : ThreadExit(t)
    \/ \E t \in Threads, g \in Getters : Getter(t, g)
    \/ \E t \in Threads, s \in Setters : \E v \in ValuesOf(ParamType(s)) : Setter(t, s, v)
    \/ \E t \in Threads : \E r \in held[t] : \E v \in ValuesOf(PointeeType(r.getter)) :
          StoreThrough(t, r, v)

Spec == Init /\ [][Next]_vars

\* Lookups in the static tables.
NextTables ==
    \/ \E w \in Words : TypeLookup(w)
    \/ \E v \in Bytes : BitCountLookup(v)

SpecTables == Init /\ [][NextTables]_vars

---------------------------------------------------------------------------
(* Properties of the per-thread context and the accessors (under Spec). *)

\* What thread t reads from its own context, object by object.
Context(t) == [x \in ThreadLocals |-> Read(t, x)]

\* A step of thread t: an accessor call or a store through a held reference.
\* Each of them leaves its name and its argument in last[t].
GetterStep(t) ==
    /\ last'[t].op \in {"get", "set;get", "store;get"}
    /\ Getter(t, last'[t].name)

SetterStep(t) ==
    /\ last'[t].op = "set"
    /\ Setter(t, last'[t].name, last'[t].val)

StoreStep(t) ==
    /\ last'[t].op = "store"
    /\ \E r \in held[t] : r.getter = last'[t].name /\ StoreThrough(t, r, last'[t].val)

ActsIn(t) == ops' = ops + 1 /\ (GetterStep(t) \/ SetterStep(t) \/ StoreStep(t))

\* C1. Thread isolation: whatever thread a does through the accessors (a
\* getter, a setter, a store through a reference it was given), every other
\* live thread b reads from its own context exactly what it read before.
ThreadIsolation ==
    [][\A a \in Threads : ActsIn(a) =>
          \A b \in alive \ {a} : Context(b)' = Context(b)]_vars

\* a has set debug to 5 and trace to true; b, live and without any write,
\* reads debug 0 and trace false.
IsolationWitness ==
    \E a \in alive, b \in alive :
        /\ a # b
        /\ wrote[a] /\ Read(a, "debug") = U32(0, 5) /\ Read(a, "trace") = 1
        /\ ~wrote[b] /\ Read(b, "debug") = U32(0, 0) /\ Read(b, "trace") = 0

\* C2. Default state: a live thread that has made no setter call and no store
\* through a returned reference reads false from every boolean flag, 0 from
\* debug, zero from the timing arrays and null from filename, whatever the
\* other threads have written.
DefaultState ==
    \A t \in alive : ~wrote[t] =>
        /\ \A x \in BoolVars : Read(t, x) = 0
        /\ Read(t, "debug") = U32(0, 0)
        /\ \A x \in TimingVars : Read(t, x) = 0
        /\ Read(t, "filename") = 0

\* t has called a getter and written nothing, and reads trace false, while
\* another live thread has set its trace flag.
DefaultWitness ==
    \E t \in alive, u \in alive :
        /\ t # u
        /\ ~wrote[t] /\ last[t].op = "get" /\ Read(t, "trace") = 0
        /\ wrote[u] /\ Read(u, "trace") = 1

\* C3. Round trip: when thread t calls get_X_ptr straight after set_X(v), the
\* object the returned pointer designates holds exactly v, for every flag X
\* and every argument v.
RoundTrip ==
    \A t \in alive : last[t].op = "set;get" => Deref(last[t].ptr) = last[t].val

\* set_debug(4294967295) followed by get_debug_ptr, which reads 4294967295.
RoundTripWitness ==
    \E t \in alive :
        /\ last[t].op = "set;get"
        /\ last[t].name = "get_debug_ptr"
        /\ last[t].val = U32(65535, 65535)
        /\ Deref(last[t].ptr) = U32(65535, 65535)

\* C4. Identity stability: all the references one getter has returned to a
\* thread designate the same storage, the reference a call returns is among
\* them, and a value stored through a reference from an earlier call is read
\* through the reference the next call of that getter returns.
IdentityStability ==
    \A t \in alive :
        /\ \A r1 \in held[t], r2 \in held[t] : r1.getter = r2.getter => r1.ptr = r2.ptr
        /\ last[t].op \in {"get", "set;get", "store;get"} =>
              [getter |-> last[t].name, ptr |-> last[t].ptr] \in held[t]
        /\ last[t].op = "store;get" => Deref(last[t].ptr) = last[t].val

\* get_cube, a store of 1 through the reference, get_cube again: the second
\* reference reads 1.
IdentityWitness ==
    \E t \in alive :
        /\ last[t].op = "store;get"
        /\ last[t].name = "get_cube"
        /\ last[t].val = 1
        /\ Deref(last[t].ptr) = 1

\* The flag a setter is named after: the object its companion getter (declared
\* next to it in the header) returns the address of.
CompanionObject(s) == ReturnsAddressOf(CHOOSE g \in Getters : SetterFor(g) = s)

\* The scalar configuration variables of globals.c.
ScalarFlags == BoolVars \cup UIntVars

\* C8 as stated. Accessor coverage: for every scalar thread-local flag of
\* globals.c, a live thread has a pointer-getter that returns the address of
\* its instance and a value-setter that assigns it.
AccessorCoverage ==
    \A t \in alive : \A x \in ScalarFlags :
        /\ \E g \in Getters : AddressOf(t, ReturnsAddressOf(g)) = AddressOf(t, x)
        /\ \E s \in Setters : AddressOf(t, Assigns(s)) = AddressOf(t, x)

\* The flags of the accessor catalogue: the debug level and ten booleans.
CatalogueFlags ==
    { "debug", "verbose_debug", "trace", "summary", "remove_essential",
      "force_irredundant", "unwrap_onset", "single_expand", "use_super_gasp",
      "use_random_order", "skip_make_sparse" }

\* C8, amended. Accessor coverage: for each flag of the catalogue, a live
\* thread has a pointer-getter that returns the address of its instance, with
\* the flag's type as pointee type, and a value-setter that assigns it, with
\* the flag's type as parameter type; the other scalar thread-local flags
\* (echo_comments, echo_unknown_commands, kiss, pos, print_solution,
\* recompute_onset) have neither.
CatalogueCoverage ==
    \A t \in alive :
        LET byGetter == { <<AddressOf(t, ReturnsAddressOf(g)), PointeeType(g)>> : g \in Getters }
            bySetter == { <<AddressOf(t, Assigns(s)), ParamType(s)>> : s \in Setters }
        IN  /\ \A x \in CatalogueFlags :
                  <<AddressOf(t, x), TypeOf(x)>> \in byGetter \cap bySetter
            /\ \A x \in ScalarFlags \ CatalogueFlags :
                  AddressOf(t, x) \notin { e[1] : e \in byGetter \cup bySetter }

\* A thread has written true to skip_make_sparse, the last flag of the
\* catalogue, with its setter and reads it through its getter, while kiss,
\* which has no accessor, still reads false.
CatalogueWitness ==
    \E t \in alive :
        /\ last[t].op = "set;get"
        /\ last[t].name = "get_skip_make_sparse_ptr"
        /\ last[t].ptr = AddressOf(t, "skip_make_sparse")
        /\ Read(t, "skip_make_sparse") = 1
        /\ Read(t, "kiss") = 0

LifecycleInv ==
    /\ \A t \in alive : tp[t] \in Blocks
    /\ \A t \in Threads \ alive : tp[t] = NoBlock /\ held[t] = {}
    /\ \A t \in alive, u \in alive : t # u => tp[t] # tp[u]
    /\ \A b \in Blocks \ InUse : mem[b] = Poison
    /\ \A t \in alive : \A r \in held[t] : r.ptr.blk = tp[t]

LifecycleStep ==
    \A t \in Threads :
        /\ (t \notin alive /\ t \in alive') => mem'[tp'[t]] = ZeroContext
        /\ (t \in alive /\ t \in alive') => tp'[t] = tp[t]
        /\ (t \in alive /\ t \notin alive') => mem'[tp[t]] = Poison /\ tp'[t] = NoBlock

\* C9. Context lifecycle: every live thread has one context and no two live
\* threads have the same one; storage outside the live threads' contexts
\* holds no context; every reference a thread holds points into its own
\* context; a context starts with the default values when its thread starts,
\* is the same instance for as long as the thread lives, and is gone when the
\* thread exits.
ContextLifecycle == []LifecycleInv /\ [][LifecycleStep]_vars

\* Two live threads with different contexts, one written and one not, with
\* every operation of the budget used.
LifecycleWitness ==
    \E t \in alive, u \in alive :
        /\ tp[t] # tp[u]
        /\ wrote[t] /\ ~wrote[u]
        /\ held[t] # {}
        /\ ops = MaxOps

FrameStep ==
    \A t \in Threads :
        /\ SetterStep(t) =>
              LET flag == CompanionObject(last'[t].name)
              IN  /\ \A x \in ThreadLocals \ {flag} : mem'[tp[t]][x] = mem[tp[t]][x]
                  /\ \A b \in Blocks \ {tp[t]} : mem'[b] = mem[b]
                  /\ <<alive, tp, pla_types, bit_count>>' = <<alive, tp, pla_types, bit_count>>
        /\ GetterStep(t) =>
              <<alive, tp, mem, pla_types, bit_count>>' = <<alive, tp, mem, pla_types, bit_count>>

NoAliasing ==
    \A t \in alive : \A r1 \in held[t], r2 \in held[t] :
        /\ r1.getter # r2.getter => r1.ptr # r2.ptr
        /\ r1.ptr.var \notin {"temp_cube_save", "temp_cdata_save"}

\* C10. Frame of the accessors: a setter call changes nothing but the flag it
\* is named after, in the caller's context; a getter call changes no object at
\* all; neither touches the static tables; and the references returned for
\* different items designate different storage, none of it a save slot.
AccessorFrame == []NoAliasing /\ [][FrameStep]_vars

\* A thread holding the references of get_cube and get_cdata has then called
\* set_summary(true): summary reads true, cube, cdata and both save slots zero.
FrameWitness ==
    \E t \in alive :
        /\ \E r1 \in held[t], r2 \in held[t] :
              r1.getter = "get_cube" /\ r2.getter = "get_cdata"
        /\ last[t] = Event("set", "set_summary", 1, NullPtr)
        /\ Read(t, "summary") = 1
        /\ \A x \in CubeVars \cup CdataVars \cup {"trace"} : Read(t, x) = 0

---------------------------------------------------------------------------
(* Properties of the static tables (under SpecTables). *)

\* The number of 1 bits in the binary representation of v.
RECURSIVE PopCount(_)
PopCount(v) == IF v = 0 THEN 0 ELSE (v % 2) + PopCount(v \div 2)

\* C5. bit_count has exactly the 256 entries 0..255, entry v is the number of
\* set bits of v, and a lookup of byte v returns that number.
BitCountCorrect ==
    /\ DOMAIN bit_count = 0..255
    /\ \A v \in 0..255 : bit_count[v] = PopCount(v)
    /\ bit_count[0] = 0 /\ bit_count[170] = 4 /\ bit_count[255] = 8
    /\ bitq.asked => bitq.count = PopCount(bitq.byte)

\* Byte 170 was looked up and gave 4.
BitCountWitness == bitq.asked /\ bitq.byte = 170 /\ bitq.count = 4

\* The mask the registry holds for a registered token.
MaskOf(w) ==
    LET i == CHOOSE j \in 1..Len(pla_types) :
                 ~pla_types[j].key.null /\ pla_types[j].key.str = w
    IN  pla_types[i].value

\* Each "with constraints" token and the token it extends.
ConstraintPairs ==
    { <<"-fc", "-f">>, <<"-rc", "-r">>, <<"-dc", "-d">>, <<"-fdc", "-fd">>,
      <<"-frc", "-fr">>, <<"-drc", "-dr">>, <<"-fdrc", "-fdr">> }

\* C6. The mask of a compound token is the bitwise OR of the masks of its
\* parts: -Xc carries mask(-X) OR mask(-cons), the two- and three-letter types
\* carry the OR of their letters' masks, and a lookup of -fdrc returns
\* FD | R | CONSTRAINTS.
CompoundMasks ==
    /\ \A pr \in ConstraintPairs :
          MaskOf(pr[1]) = BitOr(MaskOf(pr[2]), MaskOf("-cons"))
    /\ MaskOf("-fd") = BitOr(MaskOf("-f"), MaskOf("-d"))
    /\ MaskOf("-fr") = BitOr(MaskOf("-f"), MaskOf("-r"))
    /\ MaskOf("-dr") = BitOr(MaskOf("-d"), MaskOf("-r"))
    /\ MaskOf("-fdr") = BitOr(BitOr(MaskOf("-f"), MaskOf("-d")), MaskOf("-r"))
    /\ \A pr \in ConstraintPairs :
          typq.word = pr[1] =>
              /\ typq.status = "found"
              /\ typq.value = BitOr(MaskOf(pr[2]), CONSTRAINTS_type)
    /\ typq.word = "-fdrc" =>
          typq.value = BitOr(BitOr(FD_type, R_type), CONSTRAINTS_type)

\* -fdrc was looked up and gave F | D | R | CONSTRAINTS.
CompoundWitness ==
    /\ typq.word = "-fdrc"
    /\ typq.status = "found"
    /\ typq.value = F_type + D_type + R_type + CONSTRAINTS_type

\* The entries whose token is exactly the word.
Matches(w) ==
    { i \in 1..Len(pla_types) : ~pla_types[i].key.null /\ pla_types[i].key.str = w }

\* The words of the lookups that are no token of the registry.
Unregistered == { "-zzz", "-F", "-FDRC", "-fdrcx", "fdrc", "-", "-eq", "-con", "" }

\* C7. Registry lookup: the last entry, and only the last, is the sentinel
\* (null token, zero mask); a lookup returns the first entry whose token is
\* exactly the word, and "not recognized", having stopped at the sentinel,
\* exactly when no entry's token is the word.
LookupContract ==
    /\ pla_types[Len(pla_types)] = Entry(NullKey, 0)
    /\ \A i \in 1..(Len(pla_types) - 1) : ~pla_types[i].key.null
    /\ typq.status # "none" =>
          LET m == Matches(typq.word)
          IN  /\ typq.status \in {"found", "not recognized"}
              /\ typq.status = "not recognized" <=> m = {}
              /\ m # {} =>
                    /\ typq.index \in m
                    /\ \A j \in m : typq.index <= j
                    /\ typq.value = pla_types[typq.index].value
              /\ m = {} => typq.index = Len(pla_types)
              /\ typq.word \in Unregistered => typq.status = "not recognized"

\* -zzz was looked up and was not recognized, the scan having stopped at the
\* sentinel.
LookupWitness ==
    /\ typq.word = "-zzz"
    /\ typq.status = "not recognized"
    /\ typq.index = Len(pla_types)

====
